---------------------------- MODULE Spec2Model ----------------------------
(***************************************************************************)
(* Expense tracker (src/EXPENSE_TRACKER.py): the expense file, the budget  *)
(* file, and the command handlers that load, change and rewrite them.      *)
(*                                                                         *)
(* Money.  The program keeps amounts as binary floating-point numbers      *)
(* (argparse type=float, round(x, 2), sum(...), total > budget_amt).  The  *)
(* JSON files hold the decimal text of a value rounded to two places, so   *)
(* the persisted state keeps an amount as an integer number of cents.      *)
(* Arithmetic on loaded amounts is IEEE-754 double arithmetic, modelled    *)
(* exactly: a double x is the pair <<n, d>> with                           *)
(*        1000 * x  =  n + d / 2^62          (n in thousandths, "mills")   *)
(* and RN rounds an exact value to the nearest double, ties to even.       *)
(* Amounts typed on the command line are given in mills.                   *)
(***************************************************************************)
EXTENDS Integers, Sequences, FiniteSets, TLC

VARIABLES
    expenses,   \* content of DATA_FILE: sequence of expense records
    budget,     \* content of BUDGET_FILE: month key (text) -> ceiling, cents
    clock,      \* index of the current local date (datetime.now())
    cmd,        \* arguments of the invocation that ran last
    out,        \* lines that invocation printed, in order
    deleted,    \* history: identifiers that delete_expense has removed
    procs       \* interleaved invocations: per process, position and locals

vars == <<expenses, budget, clock, cmd, out, deleted, procs>>

---------------------------------------------------------------------------
(* Bounds of the model *)

MaxId == 3          \* add is not invoked when it would assign a larger identifier
MaxRecords == 2     \* where records vary in many fields, add is not invoked
                    \* on a store of this many records

NoArg == "None"     \* an optional argument that was not given (argparse None)

\* The local dates the clock passes through, in order (datetime.now()).
Dates ==
    << [year |-> 2025, month |-> 1, day |-> 15],
       [year |-> 2025, month |-> 2, day |-> 15],
       [year |-> 2026, month |-> 1, day |-> 15] >>

\* The month numbers given on the command line (a part of range(1, 13)).
Months == {1, 2}

---------------------------------------------------------------------------
(* IEEE-754 doubles around monetary values *)

\* Exponent e of the binade of n mills (n >= 1): the doubles in
\* [2^(e-10), 2^(e-9)) are spaced 2^(e-62) apart, i.e. 1000 * 2^e units.
BinadeOf(n) ==
    CHOOSE e \in 0..20 : 1000 * 2^e <= 1024 * n /\ 1024 * n < 1000 * 2^(e+1)

\* 2^k modulo 2000, without leaving 32-bit integers.
RECURSIVE Pow2Mod(_)
Pow2Mod(k) ==
    IF k <= 20 THEN (2^k) % 2000
    ELSE (((2^20) % 2000) * Pow2Mod(k - 20)) % 2000

\* (n * 2^k) modulo 2000: with n * 2^k = 1000*q + r, this is r plus 1000
\* when q is odd.
ScaledMod(n, k) == ((n % 2000) * Pow2Mod(k)) % 2000

\* Round-to-nearest, ties-to-even, of the exact value n + d/2^62 mills.
RN(n, d) ==
    IF n = 0 THEN <<0, 0>>
    ELSE
      LET e0  == BinadeOf(n)
          e   == IF 1000 * 2^e0 = 1024 * n /\ d < 0 THEN e0 - 1 ELSE e0
          G   == 1000 * 2^e
          x   == ScaledMod(n, 62 - e)
          s   == 2^e * (x % 1000) + d
          lo  == s \div G
          rem == s - lo * G
          Q   == ((x \div 1000) + lo) % 2
      IN  IF rem = 0 THEN <<n, d>>
          ELSE IF 2 * rem < G \/ (2 * rem = G /\ Q = 0) THEN <<n, d - rem>>
          ELSE <<n, d - rem + G>>

\* float("...") of a decimal given in mills.  Of a value <= 0 only the sign
\* is ever read (the handlers reject it), so it is kept as <<n, 0>>.
ParseFloat(mills) == IF mills <= 0 THEN <<mills, 0>> ELSE RN(mills, 0)

\* x + y on doubles.
FloatAdd(x, y) == RN(x[1] + y[1], x[2] + y[2])

\* x > y on doubles.
FloatGreater(x, y) == x[1] > y[1] \/ (x[1] = y[1] /\ x[2] > y[2])

\* x <= 0 on doubles.
NotPositive(x) == ~FloatGreater(x, <<0, 0>>)

\* The cents of x correctly rounded to two decimals, exact ties to even:
\* what round(x, 2) and the format "{x:.2f}" both produce.
Cents(x) ==
    LET m == x[1] \div 10
        t == x[1] % 10
    IN  IF t < 5 THEN m
        ELSE IF t > 5 THEN m + 1
        ELSE IF x[2] > 0 THEN m + 1
        ELSE IF x[2] < 0 THEN m
        ELSE IF m % 2 = 0 THEN m ELSE m + 1

\* round(x, 2), as what json.dump then writes: a number of cents.
Round2(x) == Cents(x)

\* json.load of a stored amount: the double nearest to cents/100.
LoadAmount(cents) == RN(10 * cents, 0)

\* sum(...) over a sequence of doubles: left to right from 0.
RECURSIVE FloatSum(_)
FloatSum(s) ==
    IF Len(s) = 0 THEN <<0, 0>>
    ELSE FloatAdd(FloatSum(SubSeq(s, 1, Len(s) - 1)), s[Len(s)])

---------------------------------------------------------------------------
(* Dates, month names, messages *)

Today == Dates[clock]

\* datetime.now().strftime("%Y-%m-%d"): the text, as its three fields.
FormatDate(dt) == <<dt.year, dt.month, dt.day>>

\* datetime.strptime(text, "%Y-%m-%d")
ParseDate(text) == [year |-> text[1], month |-> text[2], day |-> text[3]]

\* strftime('%B')
MonthName(m) ==
    << "January", "February", "March", "April", "May", "June", "July",
       "August", "September", "October", "November", "December" >>[m]

\* str(month): the key of a month in the budget file.
MonthKey(m) == ToString(m)

\* Python truthiness of an optional text argument: given and not empty.
Given(text) == text # NoArg /\ text # ""

AddAmountError == << "Error: Amount must be a positive number." >>
UpdateAmountError == << "Error: Amount must be positive." >>
BudgetAmountError == << "Error: Budget amount must be positive." >>
NotFoundError(id) == << "Error: Expense with ID ", id, " not found." >>
AddedMessage(id) == << "Expense added successfully (ID: ", id, ")" >>
UpdatedMessage == << "Expense updated successfully" >>
DeletedMessage == << "Expense deleted successfully" >>

---------------------------------------------------------------------------
(* Helpers of the handlers *)

Ids(exps) == {exps[i].id : i \in 1..Len(exps)}

MaxOf(S) == CHOOSE m \in S : \A x \in S : x <= m

\* generate_new_id, had it counted the records instead of taking the maximum.
generate_new_id_count(exps) == Len(exps) + 1

\* generate_new_id, had it filled the smallest free identifier.
generate_new_id_gap(exps) ==
    CHOOSE n \in 1..(Len(exps) + 1) :
        n \notin Ids(exps) /\ \A k \in 1..(n - 1) : k \in Ids(exps)

generate_new_id(exps) ==
    IF exps = <<>> THEN 1 ELSE MaxOf(Ids(exps)) + 1

\* The in-memory amount of a loaded record.
AmountOf(e) == LoadAmount(e.amount)

\* [e["amount"] for e in exps]
Amounts(exps) == [i \in 1..Len(exps) |-> AmountOf(exps[i])]

\* InMonth, had it compared the month alone.
InMonthAnyYear(e, month, year) == ParseDate(e.date).month = month

\* Whether a record is dated in the given month of the given year.
InMonth(e, month, year) ==
    ParseDate(e.date).month = month /\ ParseDate(e.date).year = year

\* The amounts of the records dated in the given month of the given year.
MonthAmounts(exps, month, year) ==
    Amounts(SelectSeq(exps, LAMBDA e : InMonth(e, month, year)))

\* Lines printed by warn_budget_if_needed(additional, date_str, all_expenses)
\* when the budget file holds ledger.
warn_budget_if_needed(date_str, all_expenses, ledger) ==
    LET dt == ParseDate(date_str)
        m  == MonthKey(dt.month)
    IN  IF m \in DOMAIN ledger
        THEN LET total      == FloatSum(MonthAmounts(all_expenses, dt.month, dt.year))
                 budget_amt == LoadAmount(ledger[m])
             IN  IF FloatGreater(total, budget_amt)
                 THEN << << "Warning: You have exceeded your budget ($",
                            Cents(budget_amt), ") for ", MonthName(dt.month), "." >> >>
                 ELSE <<>>
        ELSE <<>>

\* Lines printed by show_budget_warning_if_exceeded(month, month_total).
show_budget_warning_if_exceeded(month, month_total, ledger) ==
    IF MonthKey(month) \in DOMAIN ledger
    THEN LET budget_amt == LoadAmount(ledger[MonthKey(month)])
         IN  IF FloatGreater(month_total, budget_amt)
             THEN << << "Warning: Total expenses exceed the set budget ($",
                        Cents(budget_amt), ") for this month." >> >>
             ELSE <<>>
    ELSE <<>>

\* The total summary_expenses computes.
SummaryTotal(exps, month, year) ==
    IF month # 0
    THEN FloatSum(MonthAmounts(exps, month, year))
    ELSE FloatSum(Amounts(exps))

---------------------------------------------------------------------------
(* State after installation: neither file exists, nothing has run *)

Procs == {1, 2}

NoAmount == <<>>        \* --amount not given; <<a>> is --amount a (in mills)
NoMonth == 0            \* --month not given

EmptyLedger == [k \in {} |-> 0]

\* A process that has run nothing yet.  peers and after are history: the
\* processes whose invocation loaded the same file content while this one
\* held its copy unsaved, and those of them that saved before this one.
IdleProc ==
    [pc |-> "idle", description |-> "", amount |-> 0, category |-> NoArg,
     local |-> <<>>, id |-> 0, out |-> <<>>, fresh |-> FALSE,
     peers |-> {}, after |-> {}]

Init ==
    /\ expenses = <<>>
    /\ budget = EmptyLedger
    /\ clock = 1
    /\ cmd = [op |-> "none"]
    /\ out = <<>>
    /\ deleted = {}
    /\ procs = [p \in Procs |-> IdleProc]

---------------------------------------------------------------------------
(* The command handlers, one invocation each *)

\* The record add_expense builds.
NewExpense(exps, today, description, x, category) ==
    [id          |-> generate_new_id(exps),
     date        |-> FormatDate(today),
     description |-> description,
     amount      |-> Round2(x),
     category    |-> IF Given(category) THEN category ELSE ""]

add_expense(description, amount, category) ==
    LET x       == ParseFloat(amount)
        expense == NewExpense(expenses, Today, description, x, category)
        saved   == Append(expenses, expense)
    IN  /\ cmd' = [op |-> "add", description |-> description,
                   amount |-> amount, category |-> category]
        /\ IF NotPositive(x)
           THEN /\ out' = << AddAmountError >>
                /\ UNCHANGED expenses
           ELSE /\ expense.id <= MaxId
                /\ expenses' = saved
                /\ out' = warn_budget_if_needed(expense.date, saved, budget)
                             \o << AddedMessage(expense.id) >>
        /\ UNCHANGED <<budget, clock, deleted, procs>>

\* FirstIndex, had the loop variable been used after a loop without a match:
\* it then names the last record.
FirstIndexOrLast(exps, id) ==
    IF \E i \in 1..Len(exps) : exps[i].id = id
    THEN CHOOSE i \in 1..Len(exps) :
            exps[i].id = id /\ \A j \in 1..(i - 1) : exps[j].id # id
    ELSE Len(exps)

\* Position of the first record with the identifier; 0 when there is none.
FirstIndex(exps, id) ==
    IF \E i \in 1..Len(exps) : exps[i].id = id
    THEN CHOOSE i \in 1..Len(exps) :
            exps[i].id = id /\ \A j \in 1..(i - 1) : exps[j].id # id
    ELSE 0

\* UpdatedRecord, had the category been assigned like add_expense assigns it
\* (args.category if args.category else "").
UpdatedRecordBlankCategory(e, description, amount, category) ==
    [e EXCEPT !.description = IF Given(description) THEN description ELSE @,
              !.amount      = IF amount # NoAmount
                              THEN Round2(ParseFloat(amount[1])) ELSE @,
              !.category    = IF Given(category) THEN category ELSE ""]

\* The matched record after the assignments of update_expense.
UpdatedRecord(e, description, amount, category) ==
    [e EXCEPT !.description = IF Given(description) THEN description ELSE @,
              !.amount      = IF amount # NoAmount
                              THEN Round2(ParseFloat(amount[1])) ELSE @,
              !.category    = IF Given(category) THEN category ELSE @]

\* UpdateOutcome, had the list been saved before the amount check returns.
UpdateOutcomeSaveFirst(exps, id, description, amount, category) ==
    LET at == FirstIndex(exps, id)
    IN  IF at = 0
        THEN [save |-> FALSE, expenses |-> exps, out |-> << NotFoundError(id) >>]
        ELSE IF amount # NoAmount /\ NotPositive(ParseFloat(amount[1]))
        THEN [save |-> TRUE,
              expenses |-> [exps EXCEPT ![at].description =
                              IF Given(description) THEN description ELSE @],
              out |-> << UpdateAmountError >>]
        ELSE [save |-> TRUE,
              expenses |-> [exps EXCEPT ![at] =
                              UpdatedRecord(exps[at], description, amount, category)],
              out |-> << UpdatedMessage >>]

\* What update_expense does to the loaded list: whether it saves, the list
\* it saves, the lines it prints.
UpdateOutcome(exps, id, description, amount, category) ==
    LET at == FirstIndex(exps, id)
    IN  IF at = 0
        THEN [save |-> FALSE, expenses |-> exps, out |-> << NotFoundError(id) >>]
        ELSE IF amount # NoAmount /\ NotPositive(ParseFloat(amount[1]))
        THEN [save |-> FALSE,
              expenses |-> [exps EXCEPT ![at].description =
                              IF Given(description) THEN description ELSE @],
              out |-> << UpdateAmountError >>]
        ELSE [save |-> TRUE,
              expenses |-> [exps EXCEPT ![at] =
                              UpdatedRecord(exps[at], description, amount, category)],
              out |-> << UpdatedMessage >>]

update_expense(id, description, amount, category) ==
    LET r == UpdateOutcome(expenses, id, description, amount, category)
    IN  /\ cmd' = [op |-> "update", id |-> id, description |-> description,
                   amount |-> amount, category |-> category]
        /\ expenses' = IF r.save THEN r.expenses ELSE expenses
        /\ out' = r.out
        /\ UNCHANGED <<budget, clock, deleted, procs>>

\* What delete_expense does to the loaded list.
DeleteOutcome(exps, id) ==
    LET kept == SelectSeq(exps, LAMBDA e : e.id # id)
    IN  IF Len(kept) # Len(exps)
        THEN [save |-> TRUE, expenses |-> kept, out |-> << DeletedMessage >>]
        ELSE [save |-> FALSE, expenses |-> kept, out |-> << NotFoundError(id) >>]

delete_expense(id) ==
    LET r == DeleteOutcome(expenses, id)
    IN  /\ cmd' = [op |-> "delete", id |-> id]
        /\ expenses' = IF r.save THEN r.expenses ELSE expenses
        /\ deleted' = IF r.save THEN deleted \cup {id} ELSE deleted
        /\ out' = r.out
        /\ UNCHANGED <<budget, clock, procs>>

\* Lines printed by summary_expenses.
SummaryLines(exps, ledger, today, month) ==
    LET total == SummaryTotal(exps, month, today.year)
    IN  IF month # NoMonth
        THEN << << "Total expenses for ", MonthName(month), ": $", Cents(total) >> >>
               \o show_budget_warning_if_exceeded(month, total, ledger)
        ELSE << << "Total expenses: $", Cents(total) >> >>

summary_expenses(month) ==
    /\ cmd' = [op |-> "summary", month |-> month]
    /\ out' = SummaryLines(expenses, budget, Today, month)
    /\ UNCHANGED <<expenses, budget, clock, deleted, procs>>

\* The budget file after budget[str(month)] = round(amount, 2).
WithBudget(ledger, month, x) ==
    [k \in DOMAIN ledger \cup {MonthKey(month)} |->
        IF k = MonthKey(month) THEN Round2(x) ELSE ledger[k]]

set_budget(month, amount) ==
    LET x == ParseFloat(amount)
    IN  /\ cmd' = [op |-> "set-budget", month |-> month, amount |-> amount]
        /\ IF NotPositive(x)
           THEN /\ out' = << BudgetAmountError >>
                /\ UNCHANGED budget
           ELSE /\ budget' = WithBudget(budget, month, x)
                /\ out' = << << "Budget of $", Cents(x), " set for month ",
                                MonthName(month), "." >> >>
        /\ UNCHANGED <<expenses, clock, deleted, procs>>

\* Time passes between invocations: the clock moves to the next date, among
\* the first `last` of Dates.
Tick(last) ==
    /\ clock < last
    /\ clock' = clock + 1
    /\ cmd' = [op |-> "none"]
    /\ out' = <<>>
    /\ UNCHANGED <<expenses, budget, deleted, procs>>

---------------------------------------------------------------------------
(* What the printed lines say *)

\* The invocation printed the success line of add_expense.
IsAdded(lines) ==
    /\ Len(lines) >= 1
    /\ Len(lines[Len(lines)]) = 3
    /\ lines[Len(lines)][1] = "Expense added successfully (ID: "

\* The identifier that success line reports.
AddedId(lines) == lines[Len(lines)][2]

---------------------------------------------------------------------------
(* Specification Spec: identifiers.  Invocations of add, update and        *)
(* delete, accepted and rejected, on records that differ in description.    *)

IdArgs == 1..MaxId

Next ==
    \/ \E aAmt \in {0, 100} : add_expense("Coffee", aAmt, NoArg)
    \/ \E uId \in IdArgs, uDesc \in {NoArg, "Book"}, uAmt \in {NoAmount, <<0>>} :
          update_expense(uId, uDesc, uAmt, NoArg)
    \/ \E dId \in IdArgs : delete_expense(dId)

Spec == Init /\ [][Next]_vars

---------------------------------------------------------------------------
(* Specification SpecUpdate: what update rewrites.  Records are added on    *)
(* two dates and updated with every combination of given, empty and absent  *)
(* arguments.                                                               *)

NextUpdate ==
    \/ Len(expenses) < MaxRecords /\ add_expense("Coffee", 100, "food")
    \/ \E uId \in 1..MaxRecords, uDesc \in {NoArg, "", "Book"},
          uAmt \in {NoAmount, <<204>>}, uCat \in {NoArg, "rent"} :
          update_expense(uId, uDesc, uAmt, uCat)
    \/ Tick(2)

SpecUpdate == Init /\ [][NextUpdate]_vars

---------------------------------------------------------------------------
(* Specification SpecAmounts: amount validation and rounding.  Amounts      *)
(* below zero, zero, below half a cent and ordinary, given to add, update   *)
(* and set-budget.                                                          *)

NextAmounts ==
    \/ \E aAmt \in {-100, 0, 4, 100} :
          Len(expenses) < MaxRecords /\ add_expense("Coffee", aAmt, NoArg)
    \/ \E uId \in 1..MaxRecords, uDesc \in {NoArg, "Book"},
          uAmt \in {NoAmount, <<-100>>, <<0>>, <<4>>, <<200>>} :
          update_expense(uId, uDesc, uAmt, NoArg)
    \/ \E bAmt \in {-100, 0, 4, 300} : set_budget(1, bAmt)

SpecAmounts == Init /\ [][NextAmounts]_vars

---------------------------------------------------------------------------
(* Specification SpecTotals: sums and budget warnings.  Records of 0.10 and *)
(* 0.20 are added in two months of one year and in one month of the next;   *)
(* ceilings of 0.20 and 0.30 are set; summaries are asked for.              *)

NextTotals ==
    \/ \E aAmt \in {100, 200} : add_expense("Coffee", aAmt, NoArg)
    \/ \E sMonth \in Months \cup {NoMonth} : summary_expenses(sMonth)
    \/ \E bMonth \in Months, bAmt \in {200, 300} : set_budget(bMonth, bAmt)
    \/ Tick(Len(Dates))

SpecTotals == Init /\ [][NextTotals]_vars

---------------------------------------------------------------------------
(* Two add invocations as separate processes: no lock is taken, so their   *)
(* file accesses interleave.  An invocation reads the expense file once    *)
(* (line 43), writes it once (line 55), then reads the budget file and     *)
(* prints (lines 58-60).                                                   *)

\* Lines 43-46: load_expenses(), then the amount check.
add_load(p, description, amount, category) ==
    LET valid  == ~NotPositive(ParseFloat(amount))
        others == {q \in Procs \ {p} : procs[q].pc = "loaded" /\ procs[q].fresh}
    IN  /\ procs[p].pc \in {"idle", "done"}
        /\ procs' =
             [q \in Procs |->
                IF q = p
                THEN [pc |-> IF valid THEN "loaded" ELSE "done",
                      description |-> description, amount |-> amount,
                      category |-> category, local |-> expenses, id |-> 0,
                      out |-> IF valid THEN <<>> ELSE << AddAmountError >>,
                      fresh |-> valid,
                      peers |-> IF valid THEN others ELSE {},
                      after |-> {}]
                ELSE [procs[q] EXCEPT
                        !.peers = IF valid /\ q \in others
                                  THEN @ \cup {p} ELSE @ \ {p}]]
        /\ UNCHANGED <<expenses, budget, clock, cmd, out, deleted>>

\* SavedList, had the invocation appended to the file as it is when it saves.
SavedListReloaded(p) ==
    Append(expenses,
           NewExpense(expenses, Today, procs[p].description,
                      ParseFloat(procs[p].amount), procs[p].category))

\* The list an invocation writes: its loaded copy with the new record.
SavedList(p) ==
    Append(procs[p].local,
           NewExpense(procs[p].local, Today, procs[p].description,
                      ParseFloat(procs[p].amount), procs[p].category))

\* Lines 47-55: build the record, append it, save_expenses(expenses).
add_save(p) ==
    LET saved == SavedList(p)
        id    == saved[Len(saved)].id
    IN  /\ procs[p].pc = "loaded"
        /\ id <= MaxId
        /\ expenses' = saved
        /\ procs' =
             [q \in Procs |->
                IF q = p
                THEN [procs[p] EXCEPT
                        !.pc = "saved", !.local = saved, !.id = id,
                        !.after = {r \in procs[p].peers :
                                     procs[r].pc \in {"saved", "done"}}]
                ELSE IF procs[q].pc = "loaded"
                THEN [procs[q] EXCEPT !.fresh = FALSE]
                ELSE procs[q]]
        /\ UNCHANGED <<budget, clock, cmd, out, deleted>>

\* Lines 58-60: the budget check on the in-memory list, the success line.
add_report(p) ==
    /\ procs[p].pc = "saved"
    /\ procs' =
         [procs EXCEPT
            ![p].pc = "done",
            ![p].out = warn_budget_if_needed(
                           procs[p].local[Len(procs[p].local)].date,
                           procs[p].local, budget)
                       \o << AddedMessage(procs[p].id) >>]
    /\ UNCHANGED <<expenses, budget, clock, cmd, out, deleted>>

NextRace ==
    \E p \in Procs :
        \/ \E rDesc \in {"Coffee", "Book"}, rAmt \in {0, 100} :
              add_load(p, rDesc, rAmt, NoArg)
        \/ add_save(p)
        \/ add_report(p)

SpecRace == Init /\ [][NextRace]_vars

---------------------------------------------------------------------------
(* Properties *)

UniqueIds ==
    \A i, j \in 1..Len(expenses) : i # j => expenses[i].id # expenses[j].id

\* A step of add that printed its success line.
AddSucceeds == cmd'.op = "add" /\ IsAdded(out')

AddAssignsNextId ==
    AddSucceeds =>
        /\ AddedId(out') = IF expenses = <<>> THEN 1
                           ELSE MaxOf(Ids(expenses)) + 1
        /\ Len(expenses') = Len(expenses) + 1
        /\ SubSeq(expenses', 1, Len(expenses)) = expenses
        /\ expenses'[Len(expenses')].id = AddedId(out')

\* C1: in every state reached by add, update and delete invocations,
\* accepted or rejected, no two stored records share an identifier, and
\* every successful add appends one record whose identifier is the largest
\* stored identifier plus one, or 1 on an empty store.
C1_UniqueNextId == []UniqueIds /\ [][AddAssignsNextId]_vars

\* C1 happens: after deletions, an add on a one-record store has assigned
\* the identifier above the survivor's.
C1_Witness ==
    /\ cmd.op = "add" /\ IsAdded(out)
    /\ Len(expenses) = 2
    /\ expenses[1].id = 2 /\ AddedId(out) = 3
    /\ 1 \in deleted

C4_NotFoundUnchanged ==
    [][(cmd'.op \in {"update", "delete"} /\ cmd'.id \notin Ids(expenses)) =>
          /\ out' = << NotFoundError(cmd'.id) >>
          /\ expenses' = expenses]_vars

\* C4 happens: update with a new description and an amount was given an
\* identifier that a non-empty store does not hold.
C4_Witness ==
    /\ cmd.op = "update"
    /\ cmd.description = "Book" /\ cmd.amount # NoAmount
    /\ expenses # <<>> /\ cmd.id \notin Ids(expenses)
    /\ out = << NotFoundError(cmd.id) >>

FilesUnchanged == expenses' = expenses /\ budget' = budget

\* Steps of add and set-budget given an amount <= 0.
AddRejectsAmount ==
    (cmd'.op = "add" /\ cmd'.amount <= 0) =>
        out' = << AddAmountError >> /\ FilesUnchanged

BudgetRejectsAmount ==
    (cmd'.op = "set-budget" /\ cmd'.amount <= 0) =>
        out' = << BudgetAmountError >> /\ FilesUnchanged

\* A step of update given an amount <= 0.
UpdateBadAmount ==
    cmd'.op = "update" /\ cmd'.amount # NoAmount /\ cmd'.amount[1] <= 0

\* C3 as stated: add, update and set-budget given an amount <= 0 print the
\* invalid-amount error and leave both files as they were.
C3_InvalidAmountAlways ==
    [][/\ AddRejectsAmount
       /\ BudgetRejectsAmount
       /\ UpdateBadAmount =>
             out' = << UpdateAmountError >> /\ FilesUnchanged]_vars

\* C3 as amended: add and set-budget given an amount <= 0 print the
\* invalid-amount error; update given an amount <= 0 prints it when a record
\* has the identifier, and the not-found error when none has; in every one
\* of these cases both files stay as they were, also when update was given
\* a description.
C3_InvalidAmountUnchanged ==
    [][/\ AddRejectsAmount
       /\ BudgetRejectsAmount
       /\ UpdateBadAmount =>
             /\ out' = IF cmd'.id \in Ids(expenses)
                       THEN << UpdateAmountError >>
                       ELSE << NotFoundError(cmd'.id) >>
             /\ FilesUnchanged]_vars

\* C3 happens: update was given a new description and an amount <= 0 for a
\* stored record, printed the invalid-amount error, and the record still
\* has its old description; a ceiling is set.
C3_Witness ==
    /\ cmd.op = "update" /\ cmd.amount # NoAmount /\ cmd.amount[1] <= 0
    /\ cmd.description = "Book"
    /\ out = << UpdateAmountError >>
    /\ \E i \in 1..Len(expenses) :
          expenses[i].id = cmd.id /\ expenses[i].description = "Coffee"
    /\ DOMAIN budget # {}

\* C5: every amount stored in the expense file and every ceiling stored in
\* the budget file is strictly positive.
C5_StoredAmountsPositive ==
    /\ \A i \in 1..Len(expenses) : expenses[i].amount > 0
    /\ \A k \in DOMAIN budget : budget[k] > 0

\* The sum, in cents, of the first n records dated in the month of the year;
\* of all the first n records when month is NoMonth.
RECURSIVE CentsOf(_, _, _, _)
CentsOf(exps, n, month, year) ==
    IF n = 0 THEN 0
    ELSE CentsOf(exps, n - 1, month, year)
           + (IF month = NoMonth
                 \/ (exps[n].date[2] = month /\ exps[n].date[1] = year)
              THEN exps[n].amount ELSE 0)

\* C6: summary with a month prints the sum of the amounts of exactly the
\* stored records of that month in the current year, summary without a month
\* the sum of all stored amounts; neither changes a file.
C6_SummaryTotal ==
    [][cmd'.op = "summary" =>
          /\ out'[1] =
                IF cmd'.month # NoMonth
                THEN << "Total expenses for ", MonthName(cmd'.month), ": $",
                        CentsOf(expenses, Len(expenses), cmd'.month, Today.year) >>
                ELSE << "Total expenses: $",
                        CentsOf(expenses, Len(expenses), NoMonth, 0) >>
          /\ FilesUnchanged]_vars

\* C6 happens: a summary of the current month was printed while the store
\* holds a record of that month in an earlier year, one of that month in
\* this year and one of another month.
C6_Witness ==
    /\ cmd.op = "summary" /\ cmd.month = Today.month
    /\ \E i, j, k \in 1..Len(expenses) :
          /\ expenses[i].date[2] = cmd.month /\ expenses[i].date[1] # Today.year
          /\ expenses[j].date[2] = cmd.month /\ expenses[j].date[1] = Today.year
          /\ expenses[k].date[2] # cmd.month
    /\ out[1][4] = CentsOf(expenses, Len(expenses), cmd.month, Today.year)
    /\ out[1][4] < CentsOf(expenses, Len(expenses), NoMonth, 0)

\* C7: a successful add prints a budget warning exactly when a ceiling is
\* set for the month of the new record and the sum of the stored amounts of
\* that month and year, the new record included, is greater than the
\* ceiling; a sum equal to the ceiling prints none.
C7_WarningIffOverCeiling ==
    [][AddSucceeds =>
          ((Len(out') > 1) <=>
             /\ MonthKey(Today.month) \in DOMAIN budget
             /\ CentsOf(expenses', Len(expenses'), Today.month, Today.year)
                  > budget[MonthKey(Today.month)])]_vars

\* C8: after a successful add, the warning lines it printed are the warning
\* lines a summary of that month prints for the same files and date.
C8_SameWarning ==
    (cmd.op = "add" /\ IsAdded(out)) =>
        SubSeq(out, 1, Len(out) - 1)
          = Tail(SummaryLines(expenses, budget, Today, Today.month))

\* C9: a successful update changes only the record with the identifier, and
\* in it only the description and category given non-empty and the amount
\* given, stored within half a cent of the amount given; the identifier and
\* date of that record, every other record, the number and order of the
\* records and the budget file stay as they were.
C9_UpdateFrame ==
    [][(cmd'.op = "update" /\ out' = << UpdatedMessage >>) =>
          /\ Len(expenses') = Len(expenses)
          /\ budget' = budget
          /\ \A i \in 1..Len(expenses) :
                IF expenses[i].id # cmd'.id
                THEN expenses'[i] = expenses[i]
                ELSE /\ expenses'[i].id = expenses[i].id
                     /\ expenses'[i].date = expenses[i].date
                     /\ expenses'[i].description =
                           IF cmd'.description \in {NoArg, ""}
                           THEN expenses[i].description ELSE cmd'.description
                     /\ expenses'[i].category =
                           IF cmd'.category \in {NoArg, ""}
                           THEN expenses[i].category ELSE cmd'.category
                     /\ IF cmd'.amount = NoAmount
                        THEN expenses'[i].amount = expenses[i].amount
                        ELSE 10 * expenses'[i].amount - cmd'.amount[1]
                               \in -5..5]_vars

\* C9 happens: on a later date, an update gave the second of two records a
\* new description and an amount and no category; the record has them, its
\* old category and its old date, and the first record is as it was added.
C9_Witness ==
    /\ cmd.op = "update" /\ out = << UpdatedMessage >>
    /\ cmd.id = 2 /\ cmd.description = "Book" /\ cmd.amount = <<204>>
    /\ cmd.category = NoArg
    /\ Len(expenses) = 2
    /\ expenses[2] = [id |-> 2, date |-> FormatDate(Dates[1]),
                       description |-> "Book", amount |-> 20,
                       category |-> "food"]
    /\ expenses[1].description = "Coffee" /\ expenses[1].amount = 10
    /\ clock = 2

\* Two processes whose invocations both loaded the same file content before
\* either saved, p saving after q, and both have finished.
RacedPair(p, q) ==
    /\ p # q
    /\ procs[p].pc = "done" /\ procs[q].pc = "done"
    /\ q \in procs[p].peers /\ q \in procs[p].after

\* C10: when two add invocations both load the expense file before either
\* saves, both print success with the same new identifier, and once both
\* have finished the file is the list the later one saved: the common
\* loaded content plus the later record only, with unique identifiers.
C10_LastWriterWins ==
    \A p, q \in Procs :
        RacedPair(p, q) =>
            /\ IsAdded(procs[p].out) /\ IsAdded(procs[q].out)
            /\ AddedId(procs[p].out) = AddedId(procs[q].out)
            /\ expenses = procs[p].local
            /\ Len(expenses) = Len(procs[q].local)
            /\ SubSeq(expenses, 1, Len(expenses) - 1)
                 = SubSeq(procs[q].local, 1, Len(expenses) - 1)
            /\ UniqueIds

\* C10 happens: two invocations raced on a non-empty file with different
\* descriptions, and the earlier one's record is not in the file.
C10_Witness ==
    \E p, q \in Procs :
        /\ RacedPair(p, q)
        /\ Len(expenses) = 2
        /\ procs[p].description # procs[q].description
        /\ \A i \in 1..Len(expenses) :
              expenses[i] # procs[q].local[Len(procs[q].local)]

===========================================================================
